---- MODULE Spec2Model ----
(***************************************************************************)
(* The BadgerDB buffer pool manager (src/src/buffer.cpp) as a state        *)
(* machine: the frame descriptor table, the page pool, the frame index     *)
(* (hash table), the clock hand and the files the manager reads and        *)
(* writes.  One action per public call; every call runs to completion.     *)
(***************************************************************************)
EXTENDS Integers, FiniteSets, Sequences, TLC

\* ------------------------------------------------------------------ bounds
numBufs  == 2      \* BufMgr::BufMgr(bufs): the number of frames
NumFiles == 2      \* distinct File objects the client passes in
MaxPage  == 2      \* page numbers a file hands out: 1..MaxPage
MaxData  == 1      \* page contents: 0..MaxData (0 is the empty page)
MaxPin   == 2      \* cap on a frame's pinCnt (guard of a readPage hit)

Frames  == 0 .. (numBufs - 1)
Files   == 1 .. NumFiles
PageIds == 1 .. MaxPage
Data    == 0 .. MaxData

NoFile  == 0       \* a null File*
NoPage  == 0       \* Page::INVALID_NUMBER
NoFrame == -1      \* no frame returned
Absent  == -1      \* the file holds no page under this number

VARIABLES
  bufDescTable,    \* [Frames -> BufDesc]
  bufPool,         \* [Frames -> Page]: the page number a Page carries, and its content
  hashTable,       \* set of entries [file, pageNo, frameNo]
  clockHand,       \* FrameId
  disk,            \* [Files -> [PageIds -> Data \cup {Absent}]]: the File objects
  last,            \* the last call: its name and its outcome ("OK" or the exception)
  pinLog,          \* history: the pins taken on the page under test and given back (SpecPin)
  saved,           \* history: the content the page under test was last unpinned dirty with (SpecData)
  setRefbit        \* the refbit BufDesc::Set establishes in this build (false or true)

vars == <<bufDescTable, bufPool, hashTable, clockHand, disk, last, pinLog, saved, setRefbit>>

\* ------------------------------------------------------------- BufDesc
\* BufDesc::Clear()
DescClear ==
  [file |-> NoFile, pageNo |-> NoPage, pinCnt |-> 0,
   dirty |-> FALSE, refbit |-> FALSE, valid |-> FALSE]

\* BufDesc::Set(file, pageNo): {file, pageNo, pinCnt=1, dirty=false,
\* refbit=false or true, valid=true}; the refbit is the build's setRefbit
DescSet(file, pageNo) ==
  [file |-> file, pageNo |-> pageNo, pinCnt |-> 1,
   dirty |-> FALSE, refbit |-> setRefbit, valid |-> TRUE]

\* ---------------------------------------------------------- BufHashTbl
HashHas(ht, file, pageNo) ==
  \E e \in ht : e.file = file /\ e.pageNo = pageNo

\* BufHashTbl::lookup: the frame of the key (the caller has tested HashHas)
HashLookup(ht, file, pageNo) ==
  (CHOOSE e \in ht : e.file = file /\ e.pageNo = pageNo).frameNo

\* BufHashTbl::insert
HashInsert(ht, file, pageNo, frameNo) ==
  ht \cup {[file |-> file, pageNo |-> pageNo, frameNo |-> frameNo]}

\* BufHashTbl::remove
HashRemove(ht, file, pageNo) ==
  {e \in ht : ~(e.file = file /\ e.pageNo = pageNo)}

\* ---------------------------------------------------------------- File
\* File::readPage(pageNo) succeeds
FileHasPage(dk, file, pageNo) ==
  pageNo \in PageIds /\ dk[file][pageNo] # Absent

\* File::readPage(pageNo): the Page object read
FileReadPage(dk, file, pageNo) ==
  [pno |-> pageNo, data |-> dk[file][pageNo]]

\* File::writePage(page): the page is stored under the number it carries
FileWritePage(dk, file, pg) ==
  [dk EXCEPT ![file][pg.pno] = pg.data]

\* File::allocatePage(): page number n is handed out, empty
FileAllocatePage(dk, file, n) ==
  [dk EXCEPT ![file][n] = 0]

\* File::deletePage(pageNo)
FileDeletePage(dk, file, pageNo) ==
  [dk EXCEPT ![file][pageNo] = Absent]

\* one writePage call, as recorded in last.written
WriteRec(file, pg) == [file |-> file, pno |-> pg.pno, data |-> pg.data]

\* ------------------------------------------------------------ the state
\* The part of the state a call works on.
Mgr(dt, bp, ht, ch, dk, wr) ==
  [desc |-> dt, pool |-> bp, hash |-> ht, hand |-> ch, disk |-> dk, written |-> wr]

Cur == Mgr(bufDescTable, bufPool, hashTable, clockHand, disk, {})

\* BufMgr::advanceClock
advanceClock(ch) == (ch + 1) % numBufs

\* allocBuf that evicts a dirty victim without writing it
WriteBackSkip(s, h) == s

\* allocBuf that writes the victim back whether it is dirty or not
WriteBackAlways(s, h) ==
  [s EXCEPT !.disk = FileWritePage(s.disk, s.desc[h].file, s.pool[h]),
            !.written = @ \cup {WriteRec(s.desc[h].file, s.pool[h])}]

\* allocBuf, the frame under the hand is the victim: write it back if dirty
WriteBack(s, h) ==
  IF s.desc[h].dirty
  THEN [s EXCEPT !.disk = FileWritePage(s.disk, s.desc[h].file, s.pool[h]),
                 !.written = @ \cup {WriteRec(s.desc[h].file, s.pool[h])}]
  ELSE s

\* allocBuf, the victim is taken out of the index and its descriptor cleared
Evict(s, h) ==
  LET w == WriteBack(s, h) IN
  IF HashHas(w.hash, w.desc[h].file, w.desc[h].pageNo)
  THEN [err |-> "OK", frame |-> h,
        s |-> [w EXCEPT !.hash = HashRemove(w.hash, w.desc[h].file, w.desc[h].pageNo),
                        !.desc[h] = DescClear]]
  ELSE [err |-> "HashNotFound", frame |-> NoFrame, s |-> w]

\* allocBuf without the test of the pin count
NoPinnedSkip(d) == FALSE

\* allocBuf, whether the frame under the hand may be taken
PinnedSkip(d) == d.pinCnt > 0

\* allocBuf, the loop bound: two passes over the pool
PassLimit == 2

\* BufMgr::allocBuf: the while loop, from clock hand s.hand with `pass` passes made
RECURSIVE allocBufLoop(_, _, _)
allocBufLoop(s, flag, pass) ==
  IF pass >= PassLimit
  THEN [err |-> "BufferExceeded", frame |-> NoFrame, s |-> s]
  ELSE
    LET h  == advanceClock(s.hand)
        p2 == IF h = flag THEN pass + 1 ELSE pass
        t  == [s EXCEPT !.hand = h]
        d  == s.desc[h]
    IN  IF ~d.valid THEN [err |-> "OK", frame |-> h, s |-> t]
        ELSE IF d.refbit
          THEN allocBufLoop([t EXCEPT !.desc[h].refbit = FALSE], flag, p2)
        ELSE IF PinnedSkip(d) THEN allocBufLoop(t, flag, p2)
        ELSE Evict(t, h)

\* allocBuf with the first pass already counted: one pass over the pool
allocBufOnePass(s) == allocBufLoop(s, s.hand, 1)

\* allocBuf that remembers the frame after the hand as its start point
allocBufLateFlag(s) == allocBufLoop(s, advanceClock(s.hand), 0)

\* allocBuf that decides on the frame under the hand before it advances
allocBufDecideFirst(s) ==
  allocBufLoop([s EXCEPT !.hand = (s.hand + numBufs - 1) % numBufs],
               (s.hand + numBufs - 1) % numBufs, 0)

\* BufMgr::allocBuf
allocBuf(s) == allocBufLoop(s, s.hand, 0)

\* ------------------------------------------------------------- the calls
Call(op, err) == [op |-> op, err |-> err]

\* the state of the manager and the files becomes s
Becomes(s) ==
  /\ bufDescTable' = s.desc
  /\ bufPool' = s.pool
  /\ hashTable' = s.hash
  /\ clockHand' = s.hand
  /\ disk' = s.disk
  /\ UNCHANGED setRefbit

Alive == last.op # "~BufMgr"

\* a frame is loaded with a page of the file: bufPool[f] = file->readPage(pageNo);
\* hashTable->insert(file, pageNo, f); bufDescTable[f].Set(file, pageNo)
Install(s, f, file, pageNo) ==
  [s EXCEPT !.pool[f] = FileReadPage(s.disk, file, pageNo),
            !.hash = HashInsert(s.hash, file, pageNo, f),
            !.desc[f] = DescSet(file, pageNo)]

\* BufMgr::readPage, the page is in the buffer pool
readPageHit(s, file, pageNo) ==
  LET f == HashLookup(s.hash, file, pageNo) IN
  [err |-> "OK", frame |-> f,
   s |-> [s EXCEPT !.desc[f].pinCnt = @ + 1, !.desc[f].refbit = TRUE]]

\* readPage that enters the page in the index and sets the descriptor before
\* it reads the page from the file
readPageMissInstallFirst(s, file, pageNo) ==
  LET a == allocBuf(s) IN
  IF a.err # "OK" THEN a
  ELSE LET i == [a.s EXCEPT !.hash = HashInsert(a.s.hash, file, pageNo, a.frame),
                            !.desc[a.frame] = DescSet(file, pageNo)] IN
       IF ~FileHasPage(a.s.disk, file, pageNo)
       THEN [err |-> "InvalidPage", frame |-> NoFrame, s |-> i]
       ELSE [err |-> "OK", frame |-> a.frame,
             s |-> [i EXCEPT !.pool[a.frame] = FileReadPage(a.s.disk, file, pageNo)]]

\* readPage that sets the refbit of the frame also when the read has failed
readPageMissRefbitAlways(s, file, pageNo) ==
  LET a == allocBuf(s) IN
  IF a.err # "OK" THEN a
  ELSE IF ~FileHasPage(a.s.disk, file, pageNo)
    THEN [err |-> "InvalidPage", frame |-> NoFrame,
          s |-> [a.s EXCEPT !.desc[a.frame].refbit = TRUE]]
  ELSE LET i == Install(a.s, a.frame, file, pageNo) IN
       [err |-> "OK", frame |-> a.frame,
        s |-> [i EXCEPT !.desc[a.frame].refbit = TRUE]]

\* BufMgr::readPage, the page is not in the buffer pool
readPageMiss(s, file, pageNo) ==
  LET a == allocBuf(s) IN
  IF a.err # "OK" THEN a
  ELSE IF ~FileHasPage(a.s.disk, file, pageNo)
    THEN [err |-> "InvalidPage", frame |-> NoFrame, s |-> a.s]
  ELSE LET i == Install(a.s, a.frame, file, pageNo) IN
       [err |-> "OK", frame |-> a.frame,
        s |-> [i EXCEPT !.desc[a.frame].refbit = TRUE]]

\* readPage without the lookup: a frame is allocated for every call
readPageNoLookup(s, file, pageNo) == readPageMiss(s, file, pageNo)

\* BufMgr::readPage: the lookup, and the allocation when the page is not found
readPageCall(s, file, pageNo) ==
  IF HashHas(s.hash, file, pageNo)
  THEN readPageHit(s, file, pageNo)
  ELSE readPageMiss(s, file, pageNo)

\* BufMgr::readPage(file, pageNo, page)
readPage(file, pageNo) ==
  /\ Alive
  /\ HashHas(hashTable, file, pageNo) =>
       bufDescTable[HashLookup(hashTable, file, pageNo)].pinCnt < MaxPin
  /\ LET r == readPageCall(Cur, file, pageNo)
     IN  /\ Becomes(r.s)
         /\ last' = Call("readPage", r.err)

\* BufMgr::allocPage, after file->allocatePage() handed out NewPage
allocPageBody(s, file, NewPage) ==
  LET a == allocBuf([s EXCEPT !.disk = FileAllocatePage(s.disk, file, NewPage)]) IN
  IF a.err # "OK" THEN a
  ELSE IF HashHas(a.s.hash, file, NewPage)
    THEN [err |-> "HashAlreadyPresent", frame |-> NoFrame,
          s |-> [a.s EXCEPT !.pool[a.frame] = FileReadPage(a.s.disk, file, NewPage)]]
  ELSE [err |-> "OK", frame |-> a.frame, s |-> Install(a.s, a.frame, file, NewPage)]

\* BufMgr::allocPage(file, pageNo, page) where file->allocatePage() hands out NewPage
allocPageAt(file, NewPage) ==
  /\ Alive
  /\ disk[file][NewPage] = Absent
  /\ LET r == allocPageBody(Cur, file, NewPage) IN
     /\ Becomes(r.s)
     /\ last' = Call("allocPage", r.err)

\* BufMgr::allocPage(file, pageNo, page)
allocPage(file) == \E NewPage \in PageIds : allocPageAt(file, NewPage)

\* unPinPage without the test of the pin count
unPinPageNoCheck(s, file, pageNo, dirty) ==
  [err |-> "OK", frame |-> NoFrame,
   s |-> [s EXCEPT !.desc[HashLookup(s.hash, file, pageNo)].pinCnt = @ - 1,
                   !.desc[HashLookup(s.hash, file, pageNo)].dirty = IF dirty THEN TRUE ELSE @]]

\* unPinPage that stores its dirty argument in the dirty bit
unPinPageAssignDirty(s, file, pageNo, dirty) ==
  LET f == HashLookup(s.hash, file, pageNo) IN
  IF s.desc[f].pinCnt = 0
  THEN [err |-> "PageNotPinned", frame |-> NoFrame, s |-> s]
  ELSE [err |-> "OK", frame |-> NoFrame,
        s |-> [s EXCEPT !.desc[f].pinCnt = @ - 1, !.desc[f].dirty = dirty]]

\* BufMgr::unPinPage, the page is in the buffer pool
unPinPageBody(s, file, pageNo, dirty) ==
  LET f == HashLookup(s.hash, file, pageNo) IN
  IF s.desc[f].pinCnt = 0
  THEN [err |-> "PageNotPinned", frame |-> NoFrame, s |-> s]
  ELSE [err |-> "OK", frame |-> NoFrame,
        s |-> [s EXCEPT !.desc[f].pinCnt = @ - 1,
                        !.desc[f].dirty = IF dirty THEN TRUE ELSE @]]

\* unPinPage without the catch of HashNotFoundException around the lookup
unPinPageNoCatch(s, file, pageNo, dirty) ==
  IF HashHas(s.hash, file, pageNo)
  THEN unPinPageBody(s, file, pageNo, dirty)
  ELSE [err |-> "HashNotFound", frame |-> NoFrame, s |-> s]

\* BufMgr::unPinPage: the lookup, and the return when the page is not found
unPinPageCall(s, file, pageNo, dirty) ==
  IF HashHas(s.hash, file, pageNo)
  THEN unPinPageBody(s, file, pageNo, dirty)
  ELSE [err |-> "OK", frame |-> NoFrame, s |-> s]

\* BufMgr::unPinPage(file, pageNo, dirty)
unPinPage(file, pageNo, dirty) ==
  /\ Alive
  /\ LET r == unPinPageCall(Cur, file, pageNo, dirty)
     IN  /\ Becomes(r.s)
         /\ last' = Call("unPinPage", r.err)

\* BufMgr::flushFile, the first loop: the frames of the file that stop the flush
FlushBlockers(s, file) ==
  {i \in Frames : s.desc[i].file = file /\ (~s.desc[i].valid \/ s.desc[i].pinCnt > 0)}

\* BufMgr::flushFile, the first loop: the exception of the first such frame
FlushCheck(s, file) ==
  LET bad == FlushBlockers(s, file) IN
  IF bad = {} THEN "OK"
  ELSE LET i == CHOOSE j \in bad : \A k \in bad : j <= k IN
       IF ~s.desc[i].valid THEN "BadBuffer" ELSE "PagePinned"

\* flushFile that removes and clears a dirty frame without writing it
FlushFrameNoWrite(s, file, i) ==
  [err |-> "OK",
   s |-> [s EXCEPT !.hash = HashRemove(s.hash, file, s.desc[i].pageNo),
                   !.desc[i] = DescClear]]

\* flushFile that calls Clear before it removes the frame's page from the index
FlushFrameClearFirst(s, file, i) ==
  LET w == [s EXCEPT !.desc[i] = DescClear] IN
  IF HashHas(w.hash, file, w.desc[i].pageNo)
  THEN [err |-> "OK", s |-> [w EXCEPT !.hash = HashRemove(w.hash, file, w.desc[i].pageNo)]]
  ELSE [err |-> "HashNotFound", s |-> w]

\* BufMgr::flushFile, the second loop at frame i: write if dirty, remove, Clear
FlushFrame(s, file, i) ==
  LET w == IF s.desc[i].dirty
           THEN [s EXCEPT !.disk = FileWritePage(s.disk, s.desc[i].file, s.pool[i]),
                          !.written = @ \cup {WriteRec(s.desc[i].file, s.pool[i])},
                          !.desc[i].dirty = FALSE]
           ELSE s
  IN  IF HashHas(w.hash, file, w.desc[i].pageNo)
      THEN [err |-> "OK",
            s |-> [w EXCEPT !.hash = HashRemove(w.hash, file, w.desc[i].pageNo),
                            !.desc[i] = DescClear]]
      ELSE [err |-> "HashNotFound", s |-> w]

\* flushFile whose second loop does not compare the frame's file: every valid
\* frame is written if dirty, removed and Cleared
RECURSIVE FlushAllFiles(_, _, _)
FlushAllFiles(s, file, i) ==
  IF i >= numBufs THEN [err |-> "OK", frame |-> NoFrame, s |-> s]
  ELSE IF ~s.desc[i].valid THEN FlushAllFiles(s, file, i + 1)
  ELSE LET r == FlushFrame(s, s.desc[i].file, i) IN
       IF r.err # "OK" THEN [err |-> r.err, frame |-> NoFrame, s |-> r.s]
       ELSE FlushAllFiles(r.s, file, i + 1)

\* BufMgr::flushFile, the second loop from frame i on
RECURSIVE FlushLoop(_, _, _)
FlushLoop(s, file, i) ==
  IF i >= numBufs THEN [err |-> "OK", frame |-> NoFrame, s |-> s]
  ELSE IF s.desc[i].file # file THEN FlushLoop(s, file, i + 1)
  ELSE LET r == FlushFrame(s, file, i) IN
       IF r.err # "OK" THEN [err |-> r.err, frame |-> NoFrame, s |-> r.s]
       ELSE FlushLoop(r.s, file, i + 1)

\* flushFile in one loop: each frame of the file is tested, then flushed
RECURSIVE FlushOnePass(_, _, _)
FlushOnePass(s, file, i) ==
  IF i >= numBufs THEN [err |-> "OK", frame |-> NoFrame, s |-> s]
  ELSE IF s.desc[i].file # file THEN FlushOnePass(s, file, i + 1)
  ELSE IF s.desc[i].pinCnt > 0 THEN [err |-> "PagePinned", frame |-> NoFrame, s |-> s]
  ELSE FlushOnePass(FlushFrame(s, file, i).s, file, i + 1)

flushFileOnePass(s, file) == FlushOnePass(s, file, 0)

\* BufMgr::flushFile(file) on state s
flushFileBody(s, file) ==
  IF FlushCheck(s, file) # "OK"
  THEN [err |-> FlushCheck(s, file), frame |-> NoFrame, s |-> s]
  ELSE FlushLoop(s, file, 0)

\* BufMgr::flushFile(file)
flushFile(file) ==
  /\ Alive
  /\ LET r == flushFileBody(Cur, file) IN
     /\ Becomes(r.s)
     /\ last' = Call("flushFile", r.err)

\* disposePage that writes the page back before it clears the frame
disposeResidentWriteBack(s, file, PageNo) ==
  LET f == HashLookup(s.hash, file, PageNo) IN
  [s EXCEPT !.disk = FileWritePage(s.disk, file, s.pool[f]),
            !.written = @ \cup {WriteRec(file, s.pool[f])},
            !.desc[f] = DescClear,
            !.hash = HashRemove(s.hash, file, PageNo)]

\* disposePage that clears the descriptor and forgets the index entry
disposeResidentKeepEntry(s, file, PageNo) ==
  [s EXCEPT !.desc[HashLookup(s.hash, file, PageNo)] = DescClear]

\* disposePage that marks the frame invalid where the code calls Clear
disposeResidentInvalidate(s, file, PageNo) ==
  LET f == HashLookup(s.hash, file, PageNo) IN
  [s EXCEPT !.desc[f].valid = FALSE, !.hash = HashRemove(s.hash, file, PageNo)]

\* BufMgr::disposePage, the page is in the buffer pool: Clear, then remove
disposeResident(s, file, PageNo) ==
  LET f == HashLookup(s.hash, file, PageNo) IN
  [s EXCEPT !.desc[f] = DescClear, !.hash = HashRemove(s.hash, file, PageNo)]

\* BufMgr::disposePage(file, PageNo) on state s
disposePageBody(s, file, PageNo) ==
  LET t == IF HashHas(s.hash, file, PageNo) THEN disposeResident(s, file, PageNo) ELSE s
  IN  [t EXCEPT !.disk = FileDeletePage(t.disk, file, PageNo)]

\* BufMgr::disposePage(file, PageNo)
disposePage(file, PageNo) ==
  /\ Alive
  /\ LET t == disposePageBody(Cur, file, PageNo) IN
     /\ Becomes(t)
     /\ last' = Call("disposePage", "OK")

\* The client changes the page it holds pinned through the Page* it was given
\* (page->insertRecord in the tests).
clientWrite(f, d) ==
  /\ Alive
  /\ bufDescTable[f].valid
  /\ bufDescTable[f].pinCnt > 0
  /\ bufPool[f].data # d
  /\ bufPool' = [bufPool EXCEPT ![f].data = d]
  /\ last' = Call("clientWrite", "OK")
  /\ UNCHANGED <<bufDescTable, hashTable, clockHand, disk, setRefbit>>

\* a destructor that releases the tables without flushing
DestroyNoFlush(s, i) == [err |-> "OK", frame |-> NoFrame, s |-> s]

\* BufMgr::~BufMgr, the loop from frame i on
RECURSIVE DestroyLoop(_, _)
DestroyLoop(s, i) ==
  IF i >= numBufs THEN [err |-> "OK", frame |-> NoFrame, s |-> s]
  ELSE IF s.desc[i].valid /\ s.desc[i].dirty
    THEN LET r == flushFileBody(s, s.desc[i].file) IN
         IF r.err # "OK" THEN r ELSE DestroyLoop(r.s, i + 1)
  ELSE DestroyLoop(s, i + 1)

\* BufMgr::~BufMgr()
Destroy ==
  /\ Alive
  /\ LET r == DestroyLoop(Cur, 0) IN
     /\ Becomes(r.s)
     /\ last' = Call("~BufMgr", r.err)

\* -------------------------------------------------------- specification
Keys == Files \X PageIds

\* the one page SpecData and SpecPin keep a history of
UnderTest == <<1, 1>>

Init ==
  /\ bufDescTable = [f \in Frames |-> DescClear]
  /\ bufPool = [f \in Frames |-> [pno |-> NoPage, data |-> 0]]
  /\ hashTable = {}
  /\ clockHand = numBufs - 1
  /\ disk = [fl \in Files |-> [p \in PageIds |-> Absent]]
  /\ last = Call("BufMgr", "OK")
  /\ pinLog = [bal |-> 0, silent |-> 0]
  /\ saved = {}
  /\ setRefbit \in BOOLEAN

History == <<pinLog, saved>>

\* The manager under every sequence of public calls.
Next ==
  \/ \E file \in Files, pageNo \in PageIds :
       readPage(file, pageNo) /\ UNCHANGED History
  \/ \E file \in Files :
       allocPage(file) /\ UNCHANGED History
  \/ \E file \in Files, pageNo \in PageIds, dirty \in BOOLEAN :
       unPinPage(file, pageNo, dirty) /\ UNCHANGED History
  \/ \E file \in Files :
       flushFile(file) /\ UNCHANGED History
  \/ \E file \in Files, pageNo \in PageIds :
       disposePage(file, pageNo) /\ UNCHANGED History
  \/ Destroy /\ UNCHANGED History

Spec == Init /\ [][Next]_vars

\* ---- SpecData: the calls of a client that writes to the page under test and
\* holds at most one pin on a page.  saved is the content that page was last
\* unpinned dirty with: set by a dirty unpin, forgotten when the page is
\* written again or disposed of.
Resident(file, pageNo) == HashHas(hashTable, file, pageNo)

FrameOf(file, pageNo) == HashLookup(hashTable, file, pageNo)

IsUnderTest(file, pageNo) == <<file, pageNo>> = UnderTest

DataRead(file, pageNo) ==
  /\ Resident(file, pageNo) => bufDescTable[FrameOf(file, pageNo)].pinCnt = 0
  /\ readPage(file, pageNo)
  /\ UNCHANGED History

DataUnPin(file, pageNo, dirty) ==
  /\ unPinPage(file, pageNo, dirty)
  /\ saved' = IF IsUnderTest(file, pageNo) /\ dirty /\ Resident(file, pageNo)
                 /\ last'.err = "OK"
              THEN {bufPool[FrameOf(file, pageNo)].data}
              ELSE saved
  /\ UNCHANGED pinLog

DataDispose(file, pageNo) ==
  /\ disposePage(file, pageNo)
  /\ saved' = IF IsUnderTest(file, pageNo) THEN {} ELSE saved
  /\ UNCHANGED pinLog

DataWrite(f, d) ==
  /\ IsUnderTest(bufDescTable[f].file, bufDescTable[f].pageNo)
  /\ clientWrite(f, d)
  /\ saved' = {}
  /\ UNCHANGED pinLog

NextData ==
  \/ \E file \in Files, pageNo \in PageIds :
       DataRead(file, pageNo)
  \/ \E file \in Files :
       allocPage(file) /\ UNCHANGED History
  \/ \E file \in Files, pageNo \in PageIds, dirty \in BOOLEAN :
       DataUnPin(file, pageNo, dirty)
  \/ \E file \in Files :
       flushFile(file) /\ UNCHANGED History
  \/ \E file \in Files, pageNo \in PageIds :
       DataDispose(file, pageNo)
  \/ \E f \in Frames, d \in Data :
       DataWrite(f, d)
  \/ Destroy /\ UNCHANGED History

SpecData == Init /\ [][NextData]_vars

\* ---- SpecPin: readPage, allocPage and unPinPage only, with the pins on the
\* page under test counted.  bal: its successful readPage and allocPage calls
\* minus its unPinPage calls that found it in the pool and returned; silent: its
\* unPinPage calls that found it, a page of the file, absent from the pool and
\* returned.
MaxSilent == 1

Bump(field, n) == [pinLog EXCEPT ![field] = @ + n]

PinRead(file, pageNo) ==
  /\ readPage(file, pageNo)
  /\ pinLog' = IF IsUnderTest(file, pageNo) /\ last'.err = "OK"
               THEN Bump("bal", 1) ELSE pinLog
  /\ UNCHANGED saved

PinAlloc(file) ==
  \E NewPage \in PageIds :
    /\ allocPageAt(file, NewPage)
    /\ pinLog' = IF IsUnderTest(file, NewPage) /\ last'.err = "OK"
                 THEN Bump("bal", 1) ELSE pinLog
    /\ UNCHANGED saved

\* an unPinPage on the page under test while it is in the file and not in the pool
Evicted(file, pageNo) ==
  IsUnderTest(file, pageNo) /\ ~Resident(file, pageNo) /\ FileHasPage(disk, file, pageNo)

PinUnPin(file, pageNo, dirty) ==
  /\ Evicted(file, pageNo) => pinLog.silent < MaxSilent
  /\ unPinPage(file, pageNo, dirty)
  /\ pinLog' = IF Evicted(file, pageNo) THEN Bump("silent", 1)
               ELSE IF IsUnderTest(file, pageNo) /\ Resident(file, pageNo) /\ last'.err = "OK"
                 THEN Bump("bal", -1)
               ELSE pinLog
  /\ UNCHANGED saved

NextPin ==
  \/ \E file \in Files, pageNo \in PageIds : PinRead(file, pageNo)
  \/ \E file \in Files : PinAlloc(file)
  \/ \E file \in Files, pageNo \in PageIds, dirty \in BOOLEAN : PinUnPin(file, pageNo, dirty)

SpecPin == Init /\ [][NextPin]_vars

\* ------------------------------------------------------------- the claims
EntriesOf(f) == {e \in hashTable : e.frameNo = f}

AllPinned == \A f \in Frames : bufDescTable[f].valid /\ bufDescTable[f].pinCnt > 0

Failed == last.err # "OK"

\* C1 (index agreement): after any sequence of public calls, failed ones
\* included, a frame is valid iff exactly one index entry maps to it, and that
\* entry's key is the frame's (file, pageNo); an invalid frame has no entry; no
\* key occurs twice and the valid frames are as many as the index entries.
C1_IndexAgreement ==
  /\ \A f \in Frames :
       /\ bufDescTable[f].valid <=>
            /\ Cardinality(EntriesOf(f)) = 1
            /\ \A e \in EntriesOf(f) :
                 e.file = bufDescTable[f].file /\ e.pageNo = bufDescTable[f].pageNo
       /\ ~bufDescTable[f].valid => EntriesOf(f) = {}
  /\ \A e1, e2 \in hashTable :
       (e1.frameNo = e2.frameNo \/ (e1.file = e2.file /\ e1.pageNo = e2.pageNo)) => e1 = e2
  /\ Cardinality({f \in Frames : bufDescTable[f].valid}) = Cardinality(hashTable)

\* a failed call has left one frame cleared beside a resident page
C1_Witness ==
  /\ Failed
  /\ \E f, g \in Frames : bufDescTable[f].valid /\ ~bufDescTable[g].valid

\* C2 (no eviction of pinned), as claimed: no call clears or overwrites a frame
\* that was pinned before the call.
C2_NoEvictionOfPinned ==
  [][\A f \in Frames :
       bufDescTable[f].pinCnt > 0 =>
         /\ bufDescTable'[f].valid
         /\ bufDescTable'[f].file = bufDescTable[f].file
         /\ bufDescTable'[f].pageNo = bufDescTable[f].pageNo
         /\ bufPool'[f] = bufPool[f]]_vars

\* C3: from every reachable state and every clock-hand position allocBuf fails
\* with BufferExceeded iff every frame is valid and pinned, and otherwise
\* returns a frame; so do a readPage miss and allocPage.
C3_BufferExceededIff ==
  /\ \A h \in Frames :
       LET a == allocBuf([Cur EXCEPT !.hand = h]) IN
       /\ a.err = "BufferExceeded" <=> AllPinned
       /\ ~AllPinned => (a.err = "OK" /\ a.frame \in Frames)
  /\ \A file \in Files, pageNo \in PageIds :
       /\ ~HashHas(hashTable, file, pageNo) =>
            (readPageMiss(Cur, file, pageNo).err = "BufferExceeded" <=> AllPinned)
       /\ disk[file][pageNo] = Absent =>
            (allocPageBody(Cur, file, pageNo).err = "BufferExceeded" <=> AllPinned)

\* a call has failed with BufferExceeded, every frame being pinned
C3_Witness == last.err = "BufferExceeded" /\ AllPinned

\* a frame is unpinned with its refbit set while another is pinned: the second pass decides
C3_WitnessSecondPass ==
  \E f, g \in Frames :
    /\ bufDescTable[f].valid /\ bufDescTable[f].pinCnt = 0 /\ bufDescTable[f].refbit
    /\ bufDescTable[g].valid /\ bufDescTable[g].pinCnt > 0

\* C4 (buffer saturation), as claimed: a call that fails with BufferExceeded
\* leaves every descriptor, the index and the clock hand as they were.
C4_SaturationUnchanged ==
  [][last'.err = "BufferExceeded" =>
       UNCHANGED <<bufDescTable, hashTable, clockHand>>]_vars

\* the descriptors after a sweep that selected no frame
RefbitsCleared == [f \in Frames |-> [bufDescTable[f] EXCEPT !.refbit = FALSE]]

\* what a call that fails on a full pool leaves of the manager
KeepsAllButRefbit(r) ==
  /\ r.err = "BufferExceeded"
  /\ r.s.desc = RefbitsCleared
  /\ r.s.pool = bufPool
  /\ r.s.hash = hashTable
  /\ r.s.hand = clockHand

\* C4 amended: with every frame pinned a readPage miss or allocPage fails with
\* BufferExceeded, and the failed call leaves file, pageNo, pinCnt, dirty and
\* valid of every descriptor, the page slots, the index and the clock hand as
\* they were; it clears the refbit of every frame.
C4_SaturationKeepsAllButRefbit ==
  AllPinned =>
    \A file \in Files, pageNo \in PageIds :
      /\ ~Resident(file, pageNo) => KeepsAllButRefbit(readPageMiss(Cur, file, pageNo))
      /\ ~FileHasPage(disk, file, pageNo) =>
           KeepsAllButRefbit(allocPageBody(Cur, file, pageNo))

\* a call has failed with BufferExceeded on a full pool
C4_Witness ==
  /\ last.err = "BufferExceeded"
  /\ \A f \in Frames : bufDescTable[f].pinCnt > 0 /\ ~bufDescTable[f].refbit

\* the pin count of the page under test: that of its frame, 0 while it is not resident
PinCntUnderTest ==
  IF Resident(UnderTest[1], UnderTest[2])
  THEN bufDescTable[FrameOf(UnderTest[1], UnderTest[2])].pinCnt
  ELSE 0

\* C5 (pin accounting), as claimed: the page's pinCnt equals its successful
\* reads and allocs minus its unPinPage calls that returned without an error.
C5_PinsMinusAllUnpins ==
  Resident(UnderTest[1], UnderTest[2]) => PinCntUnderTest = pinLog.bal - pinLog.silent

\* C5 amended: under readPage, allocPage and unPinPage calls the page's pinCnt
\* equals its successful reads and allocs minus its unPinPage calls that found it
\* resident and returned, and is never negative; unPinPage on a resident page
\* with pinCnt 0 raises PageNotPinned and leaves pinCnt at 0 and dirty as it was.
C5_PinAccounting ==
  /\ PinCntUnderTest = pinLog.bal
  /\ \A f \in Frames : bufDescTable[f].pinCnt >= 0
  /\ \A file \in Files, pageNo \in PageIds, dirty \in BOOLEAN :
       (Resident(file, pageNo) /\ bufDescTable[FrameOf(file, pageNo)].pinCnt = 0) =>
         LET r == unPinPageBody(Cur, file, pageNo, dirty) IN
         /\ r.err = "PageNotPinned"
         /\ r.s.desc = bufDescTable

\* the page under test was evicted and loaded again, is pinned twice, and an
\* unPinPage found it absent in between
C5_Witness ==
  /\ PinCntUnderTest = 2
  /\ pinLog.silent = 1
  /\ ~bufDescTable[FrameOf(UnderTest[1], UnderTest[2])].dirty

\* an unPinPage on the page under test, resident and unpinned, has raised PageNotPinned
C5_WitnessNotPinned ==
  /\ last = Call("unPinPage", "PageNotPinned")
  /\ Resident(UnderTest[1], UnderTest[2])
  /\ PinCntUnderTest = 0

FramesOf(file) == {f \in Frames : bufDescTable[f].file = file}

SomePinned(file) == \E f \in FramesOf(file) : bufDescTable[f].pinCnt > 0

\* C6: flushFile on a file with a pinned frame raises PagePinned and has no
\* side effect: no writePage, no index entry removed, no descriptor or slot
\* changed, the files as they were; with no frame of the file pinned it succeeds.
C6_FlushAllOrNothing ==
  \A file \in Files :
    LET r == flushFileBody(Cur, file) IN
    /\ SomePinned(file) => (r.err = "PagePinned" /\ r.s = Cur)
    /\ ~SomePinned(file) => r.err = "OK"

\* flushFile has raised PagePinned for a file whose unpinned dirty frame
\* precedes its pinned one
C6_Witness ==
  /\ last = Call("flushFile", "PagePinned")
  /\ \E f, g \in Frames :
       /\ f < g
       /\ bufDescTable[f].file = bufDescTable[g].file
       /\ bufDescTable[f].valid /\ bufDescTable[f].dirty /\ bufDescTable[f].pinCnt = 0
       /\ bufDescTable[g].pinCnt > 0

\* the retry: flushFile has succeeded and left both slots' former pages of one
\* file out of the pool
C6_WitnessRetry ==
  /\ last = Call("flushFile", "OK")
  /\ \A f \in Frames : ~bufDescTable[f].valid /\ bufPool[f].pno # NoPage

\* C7 (durability on flush): when flushFile(file) returns successfully, every
\* frame of the file that was dirty has been written with writePage, the file
\* holding the slot's content under the frame's page number; no index entry
\* and no valid frame of the file is left, and each of its frames is Cleared.
C7_FlushDurable ==
  \A file \in Files :
    LET r == flushFileBody(Cur, file) IN
    r.err = "OK" =>
      /\ \A f \in FramesOf(file) :
           /\ bufDescTable[f].dirty =>
                /\ WriteRec(file, bufPool[f]) \in r.s.written
                /\ r.s.disk[file][bufDescTable[f].pageNo] = bufPool[f].data
           /\ r.s.desc[f] = DescClear
      /\ \A e \in r.s.hash : e.file # file
      /\ \A f \in Frames : r.s.desc[f].valid => r.s.desc[f].file # file

\* flushFile has succeeded, both frames are Cleared, and the page under test,
\* last unpinned dirty with content MaxData, is in its file with that content
C7_Witness ==
  /\ last = Call("flushFile", "OK")
  /\ \A f \in Frames : bufDescTable[f] = DescClear /\ bufPool[f].pno # NoPage
  /\ saved = {MaxData}
  /\ disk[UnderTest[1]][UnderTest[2]] = MaxData

\* C8 (read-after-write round trip): once the page under test has been unpinned
\* dirty with content b and neither written nor disposed of since, its slot
\* holds b while it is resident, and when it has left the pool, by eviction or
\* by flushFile, a readPage of it that returns a slot returns one with content b.
C8_RoundTrip ==
  saved # {} =>
    IF Resident(UnderTest[1], UnderTest[2])
    THEN bufPool[FrameOf(UnderTest[1], UnderTest[2])].data \in saved
    ELSE LET r == readPageMiss(Cur, UnderTest[1], UnderTest[2]) IN
         /\ r.err \in {"OK", "BufferExceeded"}
         /\ r.err = "OK" =>
              /\ r.s.pool[r.frame].pno = UnderTest[2]
              /\ r.s.pool[r.frame].data \in saved

\* the page under test, unpinned dirty with content MaxData, has left the pool
\* and has been read back into the frame under the hand
C8_Witness ==
  /\ last = Call("readPage", "OK")
  /\ saved = {MaxData}
  /\ Resident(UnderTest[1], UnderTest[2])
  /\ clockHand = FrameOf(UnderTest[1], UnderTest[2])
  /\ bufDescTable[clockHand].pinCnt = 1
  /\ ~bufDescTable[clockHand].dirty
  /\ bufPool[clockHand].data = MaxData

\* C9, as claimed: a readPage that fails with InvalidPage leaves the index as it
\* was before the call, and the frame allocBuf chose in the Cleared state.
C9_FailedReadIndexUnchanged ==
  [][last'.err = "InvalidPage" =>
       /\ hashTable' = hashTable
       /\ bufDescTable'[clockHand'] = DescClear]_vars

\* C9 amended: a readPage miss that fails with InvalidPage does not install the
\* page: the index holds no entry for the requested key and no new entry, it
\* has lost at most the entry of the victim allocBuf evicted, the frame allocBuf
\* chose is Cleared and no page slot is overwritten.
C9_FailedReadNotInstalled ==
  \A file \in Files, pageNo \in PageIds :
    LET r == readPageMiss(Cur, file, pageNo)
        a == allocBuf(Cur)
    IN  (~Resident(file, pageNo) /\ r.err = "InvalidPage") =>
          /\ ~FileHasPage(disk, file, pageNo)
          /\ ~HashHas(r.s.hash, file, pageNo)
          /\ r.s.hash \subseteq hashTable
          /\ Cardinality(hashTable \ r.s.hash) <= 1
          /\ \A e \in hashTable \ r.s.hash : e.frameNo = a.frame
          /\ a.frame = r.s.hand
          /\ r.s.desc[a.frame] = DescClear
          /\ r.s.pool = bufPool

\* a readPage has failed with InvalidPage, the frame under the hand is Cleared
\* and still holds the page of the victim, the other frame a resident page
C9_Witness ==
  /\ last = Call("readPage", "InvalidPage")
  /\ bufDescTable[clockHand] = DescClear
  /\ bufPool[clockHand].pno # NoPage
  /\ \E f \in Frames : bufDescTable[f].valid

Unpinned(file, pageNo) ==
  Resident(file, pageNo) => bufDescTable[FrameOf(file, pageNo)].pinCnt = 0

\* the state after the step, as a call works on it
CurNext == Mgr(bufDescTable', bufPool', hashTable', clockHand', disk', {})

\* C10, as claimed: after disposePage of an unpinned page of the file a
\* readPage of that page fails with InvalidPage.
C10_ReadAfterDisposeInvalidPage ==
  [][\A file \in Files, pageNo \in PageIds :
       (disposePage(file, pageNo) /\ Unpinned(file, pageNo)
          /\ FileHasPage(disk, file, pageNo)) =>
         readPageMiss(CurNext, file, pageNo).err = "InvalidPage"]_vars

\* C10 amended: disposePage of an unpinned page calls no writePage, clears the
\* page's frame and removes its index entry if it is resident and changes no
\* descriptor and no entry if it is not, and deletes the page from the file.
\* A page that is not in its file is not resident, and a readPage of it fails,
\* with BufferExceeded if every frame is pinned and with InvalidPage otherwise,
\* and does not make it resident.
C10_DisposeThenReadFails ==
  \A file \in Files, pageNo \in PageIds :
    /\ Unpinned(file, pageNo) =>
         LET t == disposePageBody(Cur, file, pageNo) IN
         /\ t.written = {}
         /\ t.desc = IF Resident(file, pageNo)
                     THEN [bufDescTable EXCEPT ![FrameOf(file, pageNo)] = DescClear]
                     ELSE bufDescTable
         /\ t.hash = hashTable \ {e \in hashTable : e.file = file /\ e.pageNo = pageNo}
         /\ ~HashHas(t.hash, file, pageNo)
         /\ t.pool = bufPool /\ t.hand = clockHand
         /\ ~FileHasPage(t.disk, file, pageNo)
         /\ \A fl \in Files, p \in PageIds :
              <<fl, p>> # <<file, pageNo>> => t.disk[fl][p] = disk[fl][p]
    /\ ~FileHasPage(disk, file, pageNo) =>
         LET r == readPageMiss(Cur, file, pageNo) IN
         /\ ~Resident(file, pageNo)
         /\ r.err = IF AllPinned THEN "BufferExceeded" ELSE "InvalidPage"
         /\ ~HashHas(r.s.hash, file, pageNo)

\* disposePage has cleared the frame of a page: the frame still holds the page
\* in its slot, the file no longer has it
C10_Witness ==
  /\ last = Call("disposePage", "OK")
  /\ \E f \in Frames, file \in Files :
       /\ bufDescTable[f] = DescClear
       /\ bufPool[f].pno # NoPage
       /\ ~FileHasPage(disk, file, bufPool[f].pno)
       /\ \E g \in Frames : bufDescTable[g].file = file

\* C11: unPinPage on a page that is not resident raises nothing and leaves the
\* descriptors, the page slots, the index, the clock hand and the files as they
\* were (no writePage), whether dirty is true or false.
C11_UnpinAbsentIsNoOp ==
  \A file \in Files, pageNo \in PageIds, dirty \in BOOLEAN :
    ~Resident(file, pageNo) =>
      LET r == unPinPageCall(Cur, file, pageNo, dirty) IN
      /\ r.err = "OK"
      /\ r.s.desc = bufDescTable
      /\ r.s.pool = bufPool
      /\ r.s.hash = hashTable
      /\ r.s.hand = clockHand
      /\ r.s.disk = disk
      /\ r.s.written = {}

\* an unPinPage has returned while no page is resident and a page that was
\* resident before is still in its file
C11_Witness ==
  /\ last = Call("unPinPage", "OK")
  /\ hashTable = {}
  /\ \E file \in Files, pageNo \in PageIds : FileHasPage(disk, file, pageNo)

\* a step in which the dirty bit of frame f goes from true to false
DirtyCleared(f) == bufDescTable[f].dirty /\ ~bufDescTable'[f].dirty

\* C12, as claimed: the dirty bit of a frame becomes false again only through
\* flushFile (the destructor calls it) or through eviction by allocBuf, which a
\* readPage or an allocPage runs and which leaves the clock hand on the victim.
C12_DirtyClearedByFlushOrEviction ==
  [][\A f \in Frames :
       DirtyCleared(f) =>
         \/ last'.op \in {"flushFile", "~BufMgr"}
         \/ last'.op \in {"readPage", "allocPage"} /\ clockHand' = f]_vars

\* C12 amended: a step that takes the dirty bit of a frame from true to false
\* ends the residency of the frame's page (its index entry is gone after the
\* step), and it is a flushFile (or the destructor, which calls it), an
\* eviction of the unpinned frame by the allocBuf of a readPage or allocPage,
\* or a disposePage; so no unPinPage and no readPage hit clears the bit.
C12_DirtyMonotoneInResidency ==
  [][\A f \in Frames :
       DirtyCleared(f) =>
         /\ EntriesOf(f) \cap hashTable' = {}
         /\ \/ last'.op \in {"flushFile", "~BufMgr"}
            \/ /\ last'.op \in {"readPage", "allocPage"}
               /\ clockHand' = f
               /\ bufDescTable[f].pinCnt = 0
            \/ last'.op = "disposePage"]_vars

\* a readPage has hit the only resident page, which an earlier unPinPage left
\* dirty: it is pinned twice and still dirty
C12_Witness ==
  /\ last = Call("readPage", "OK")
  /\ \E f \in Frames :
       /\ bufDescTable[f].dirty
       /\ bufDescTable[f].pinCnt = 2
       /\ \A g \in Frames \ {f} : ~bufDescTable[g].valid

\* the frames that are valid and dirty
DirtyFrames == {f \in Frames : bufDescTable[f].valid /\ bufDescTable[f].dirty}

NonePinned == \A f \in Frames : bufDescTable[f].pinCnt = 0

\* C13 (teardown durability): the destructor run in a state with no frame
\* pinned raises nothing and has written every valid dirty frame with writePage,
\* its file holding the slot's content under the frame's page number; run in a
\* state where the file of some valid dirty frame has a pinned frame it raises
\* PagePinned.
C13_TeardownDurable ==
  LET r == DestroyLoop(Cur, 0) IN
  /\ NonePinned =>
       /\ r.err = "OK"
       /\ \A f \in DirtyFrames :
            /\ WriteRec(bufDescTable[f].file, bufPool[f]) \in r.s.written
            /\ r.s.disk[bufDescTable[f].file][bufDescTable[f].pageNo] = bufPool[f].data
            /\ ~r.s.desc[f].dirty
  /\ (\E f \in DirtyFrames : SomePinned(bufDescTable[f].file)) => r.err = "PagePinned"

\* the destructor has run without error and left the clean frame of another
\* file alone; the file of the page under test holds the content MaxData that
\* the page was last unpinned dirty with
C13_Witness ==
  /\ last = Call("~BufMgr", "OK")
  /\ saved = {MaxData}
  /\ disk[UnderTest[1]][UnderTest[2]] = MaxData
  /\ ~Resident(UnderTest[1], UnderTest[2])
  /\ \E f \in Frames : bufDescTable[f].valid /\ bufDescTable[f].file # UnderTest[1]

\* the destructor has stopped with PagePinned and a dirty frame is left unwritten
C13_WitnessPinned ==
  /\ last = Call("~BufMgr", "PagePinned")
  /\ DirtyFrames # {}

\* the descriptor of a page just loaded, as the claim has it
Fresh(file, pageNo) ==
  [file |-> file, pageNo |-> pageNo, pinCnt |-> 1,
   dirty |-> FALSE, refbit |-> TRUE, valid |-> TRUE]

\* frame f holds the page under the key and the index maps the key to it alone
InstalledAt(f, file, pageNo) ==
  /\ bufDescTable'[f] = Fresh(file, pageNo)
  /\ bufPool'[f].pno = pageNo
  /\ {e \in hashTable' : e.file = file /\ e.pageNo = pageNo}
       = {[file |-> file, pageNo |-> pageNo, frameNo |-> f]}

\* C14: a page that becomes resident through a readPage miss or through
\* allocPage is installed with pinCnt = 1, dirty = false, refbit = true,
\* valid = true and its (file, pageNo), the index mapping the key to the frame
\* returned (the frame under the clock hand); allocPage installs the page
\* number file->allocatePage assigned.
C14_InstalledFresh ==
  [][/\ \A file \in Files, pageNo \in PageIds :
          (readPage(file, pageNo) /\ ~Resident(file, pageNo) /\ last'.err = "OK") =>
            InstalledAt(clockHand', file, pageNo)
     /\ \A file \in Files, NewPage \in PageIds :
          (allocPageAt(file, NewPage) /\ last'.err = "OK") =>
            InstalledAt(clockHand', file, NewPage)]_vars

\* the same with the refbit of an allocPage left to BufDesc::Set
InstalledBySet(f, file, pageNo) ==
  /\ bufDescTable'[f] = [Fresh(file, pageNo) EXCEPT !.refbit = setRefbit]
  /\ bufPool'[f].pno = pageNo
  /\ {e \in hashTable' : e.file = file /\ e.pageNo = pageNo}
       = {[file |-> file, pageNo |-> pageNo, frameNo |-> f]}

\* what holds of the code: a readPage miss installs the page as C14 says;
\* allocPage does so up to the refbit, which is the one Set establishes
C14_InstalledUpToRefbit ==
  [][/\ \A file \in Files, pageNo \in PageIds :
          (readPage(file, pageNo) /\ ~Resident(file, pageNo) /\ last'.err = "OK") =>
            InstalledAt(clockHand', file, pageNo)
     /\ \A file \in Files, NewPage \in PageIds :
          (allocPageAt(file, NewPage) /\ last'.err = "OK") =>
            InstalledBySet(clockHand', file, NewPage)]_vars

\* C15: a readPage of a resident page raises nothing, returns the frame the
\* index maps the key to, adds one to its pinCnt and sets its refbit, and
\* changes nothing else: no other field and no other descriptor, no page slot,
\* no index entry, not the clock hand, no file (no writePage); also when every
\* frame is pinned.
C15_HitOnlyPins ==
  \A file \in Files, pageNo \in PageIds :
    Resident(file, pageNo) =>
      LET f == FrameOf(file, pageNo)
          r == readPageCall(Cur, file, pageNo)
      IN  /\ r.err = "OK"
          /\ r.frame = f
          /\ r.s.desc[f] = [file   |-> bufDescTable[f].file,
                            pageNo |-> bufDescTable[f].pageNo,
                            pinCnt |-> bufDescTable[f].pinCnt + 1,
                            dirty  |-> bufDescTable[f].dirty,
                            refbit |-> TRUE,
                            valid  |-> bufDescTable[f].valid]
          /\ \A g \in Frames \ {f} : r.s.desc[g] = bufDescTable[g]
          /\ r.s.pool = bufPool
          /\ r.s.hash = hashTable
          /\ r.s.hand = clockHand
          /\ r.s.disk = disk
          /\ r.s.written = {}

\* a readPage has succeeded on a full pool: every frame is pinned twice, so
\* the call was a hit (a miss installs a page with pinCnt 1)
C15_Witness ==
  /\ last = Call("readPage", "OK")
  /\ \A f \in Frames : bufDescTable[f].valid /\ bufDescTable[f].pinCnt = 2

\* the frames a call that takes the manager to s has evicted or cleared
EvictedBy(s) == {f \in Frames : bufDescTable[f].valid /\ ~s.desc[f].valid}

\* C16: whenever allocBuf returns a frame, the frame is invalid with pinCnt = 0,
\* dirty = false and refbit = false and no index entry maps to it; it was
\* invalid or valid with pinCnt = 0 before the call; no frame but the returned
\* one is evicted, no pinned frame loses its page, its pins, its dirty bit or
\* its index entry, and the index loses the returned frame's entry at most.  A
\* call that raises BufferExceeded evicts nothing.
C16_AllocBufReturnsFreeFrame ==
  LET a == allocBuf(Cur) IN
  /\ a.err \in {"OK", "BufferExceeded"}
  /\ a.err = "OK" =>
       /\ a.frame \in Frames
       /\ ~a.s.desc[a.frame].valid
       /\ a.s.desc[a.frame].pinCnt = 0
       /\ ~a.s.desc[a.frame].dirty
       /\ ~a.s.desc[a.frame].refbit
       /\ \A e \in a.s.hash : e.frameNo # a.frame
       /\ ~bufDescTable[a.frame].valid \/ bufDescTable[a.frame].pinCnt = 0
       /\ EvictedBy(a.s) \subseteq {a.frame}
       /\ hashTable \ a.s.hash = EntriesOf(a.frame)
  /\ a.err = "BufferExceeded" => EvictedBy(a.s) = {} /\ a.s.hash = hashTable
  /\ a.s.hash \subseteq hashTable
  /\ \A f \in Frames :
       bufDescTable[f].pinCnt > 0 =>
         a.s.desc[f] = [bufDescTable[f] EXCEPT !.refbit = a.s.desc[f].refbit]

\* an allocPage has taken the frame under the clock hand while the other frame
\* was pinned and a page of a file was out of the pool: the pool is full
C16_Witness ==
  /\ last = Call("allocPage", "OK")
  /\ \A f \in Frames : bufDescTable[f].valid /\ bufDescTable[f].pinCnt > 0
  /\ \E file \in Files, pageNo \in PageIds :
       FileHasPage(disk, file, pageNo) /\ ~Resident(file, pageNo)

\* the clock order: the k-th frame allocBuf examines, over two passes
Visits == 1 .. (PassLimit * numBufs)

VisitFrame(k) == (clockHand + k) % numBufs

\* the refbit of the k-th frame examined at the time of the visit: its refbit
\* on the first pass, clear on the second
RefbitAtVisit(k) == bufDescTable[VisitFrame(k)].refbit /\ k <= numBufs

\* the k-th visit finds a frame to return
Eligible(k) ==
  \/ ~bufDescTable[VisitFrame(k)].valid
  \/ ~RefbitAtVisit(k) /\ bufDescTable[VisitFrame(k)].pinCnt = 0

\* frame f is examined before the k-th visit
PassedBefore(f, k) == \E j \in Visits : j < k /\ VisitFrame(j) = f

\* C17 (clock order): allocBuf examines the frames in the order clockHand + 1,
\* clockHand + 2, ... (mod numBufs) and returns the first that is invalid, or
\* valid with refbit clear at the time of the visit and pinCnt = 0; the hand
\* ends on the returned frame; every frame passed over before has its refbit
\* clear afterwards and is otherwise as it was, the frames not reached are as
\* they were; with no such frame in two passes it raises BufferExceeded.
C17_ClockOrder ==
  LET a == allocBuf(Cur)
      E == {k \in Visits : Eligible(k)}
  IN  IF E = {} THEN a.err = "BufferExceeded"
      ELSE LET k == CHOOSE j \in E : \A i \in E : j <= i IN
           /\ a.err = "OK"
           /\ a.frame = VisitFrame(k)
           /\ a.s.hand = a.frame
           /\ \A f \in Frames \ {a.frame} :
                a.s.desc[f] =
                  [bufDescTable[f] EXCEPT
                     !.refbit = bufDescTable[f].refbit /\ ~PassedBefore(f, k)]

\* an allocPage has taken the frame under the clock hand and passed over the
\* other frame, which is unpinned: its refbit, set when it was loaded, is clear
C17_Witness ==
  /\ last = Call("allocPage", "OK")
  /\ setRefbit
  /\ \E g \in Frames \ {clockHand} :
       /\ bufDescTable[g].valid
       /\ bufDescTable[g].pinCnt = 0
       /\ ~bufDescTable[g].refbit
  /\ \E file \in Files, pageNo \in PageIds :
       FileHasPage(disk, file, pageNo) /\ ~Resident(file, pageNo)

\* the files after one writePage of content d under page number n of file fl
DiskWith(fl, n, d) ==
  [g \in Files |-> [p \in PageIds |->
     IF g = fl /\ p = n THEN d ELSE disk[g][p]]]

\* what a call that took frame v (the manager then being in s) has written:
\* the content of a valid dirty victim to the victim's own file under the
\* victim's page number, once; nothing for a clean victim or an invalid frame
VictimWrittenBack(s, v) ==
  IF bufDescTable[v].valid /\ bufDescTable[v].dirty
  THEN /\ s.written = {[file |-> bufDescTable[v].file,
                        pno  |-> bufDescTable[v].pageNo,
                        data |-> bufPool[v].data]}
       /\ s.disk = DiskWith(bufDescTable[v].file, bufDescTable[v].pageNo, bufPool[v].data)
  ELSE s.written = {} /\ s.disk = disk

Escapes(e) == last.err = e

\* C19: BadBuffer is unreachable: no frame is invalid with the file field of a
\* client file, so no call has ended with BadBuffer and flushFile on any file
\* ends with OK or PagePinned; on a file with no frame in the pool it succeeds
\* and changes nothing.
C19_BadBufferUnreachable ==
  /\ \A f \in Frames : ~bufDescTable[f].valid => bufDescTable[f].file \notin Files
  /\ ~Escapes("BadBuffer")
  /\ \A file \in Files :
       LET r == flushFileBody(Cur, file) IN
       /\ FlushCheck(Cur, file) # "BadBuffer"
       /\ r.err \in {"OK", "PagePinned"}
       /\ FramesOf(file) = {} => (r.err = "OK" /\ r.s = Cur)

\* flushFile has succeeded on an empty pool: the frames are Cleared, a frame
\* has held a page before, the first file has no page and the second has one
C19_Witness ==
  /\ last = Call("flushFile", "OK")
  /\ \A f \in Frames : bufDescTable[f] = DescClear
  /\ \E f \in Frames : bufPool[f].pno # NoPage
  /\ \A p \in PageIds : ~FileHasPage(disk, 1, p)
  /\ \E p \in PageIds : FileHasPage(disk, 2, p)

\* C20: no public call ends with HashNotFound (or with the index refusing an
\* insert): every valid frame has its key in the index, so the removals of
\* allocBuf and of flushFile (also under the destructor) find their key, and a
\* key readPage or allocPage inserts is absent: a page that is not resident for
\* readPage, a page number that is not in the file for allocPage.
C20_HashNotFoundNeverEscapes ==
  /\ ~Escapes("HashNotFound") /\ ~Escapes("HashAlreadyPresent")
  /\ \A f \in Frames :
       bufDescTable[f].valid =>
         [file |-> bufDescTable[f].file, pageNo |-> bufDescTable[f].pageNo,
          frameNo |-> f] \in hashTable
  /\ allocBuf(Cur).err \in {"OK", "BufferExceeded"}
  /\ DestroyLoop(Cur, 0).err \in {"OK", "PagePinned"}
  /\ \A file \in Files :
       /\ flushFileBody(Cur, file).err \in {"OK", "PagePinned"}
       /\ \A pageNo \in PageIds :
            /\ readPageCall(Cur, file, pageNo).err \in {"OK", "BufferExceeded", "InvalidPage"}
            /\ \A dirty \in BOOLEAN :
                 unPinPageCall(Cur, file, pageNo, dirty).err \in {"OK", "PageNotPinned"}
            /\ ~FileHasPage(disk, file, pageNo) =>
                 /\ ~Resident(file, pageNo)
                 /\ allocPageBody(Cur, file, pageNo).err \in {"OK", "BufferExceeded"}

\* flushFile has removed the entries of one file from the index while a page
\* of the other file stays in the pool, and a page of a file is out of the pool
C20_Witness ==
  /\ last = Call("flushFile", "OK")
  /\ \E f \in Frames : bufDescTable[f].valid
  /\ \E f \in Frames : bufDescTable[f] = DescClear /\ bufPool[f].pno # NoPage
  /\ \E file \in Files, pageNo \in PageIds :
       FileHasPage(disk, file, pageNo) /\ ~Resident(file, pageNo)

\* C21 (descriptor well-formedness): between public calls every frame has
\* pinCnt >= 0, dirty only if valid and refbit only if valid; an invalid frame
\* has pinCnt = 0, dirty = false and refbit = false; the clock hand is in
\* [0, numBufs), and it is numBufs - 1 after construction.
C21_DescriptorsWellFormed ==
  /\ \A f \in Frames :
       /\ bufDescTable[f].pinCnt \in Nat
       /\ bufDescTable[f].dirty => bufDescTable[f].valid
       /\ bufDescTable[f].refbit => bufDescTable[f].valid
       /\ ~bufDescTable[f].valid =>
            /\ bufDescTable[f].pinCnt = 0
            /\ ~bufDescTable[f].dirty
            /\ ~bufDescTable[f].refbit
  /\ clockHand \in 0 .. (numBufs - 1)
  /\ last.op = "BufMgr" => clockHand = numBufs - 1

\* a readPage has failed with InvalidPage on the frame under the hand, which
\* held a page before and is invalid now; the other frame is valid, unpinned
\* and dirty
C21_Witness ==
  /\ last = Call("readPage", "InvalidPage")
  /\ ~bufDescTable[clockHand].valid
  /\ bufPool[clockHand].pno # NoPage
  /\ \E g \in Frames \ {clockHand} :
       /\ bufDescTable[g].valid
       /\ bufDescTable[g].dirty
       /\ bufDescTable[g].pinCnt = 0

\* C22: flushFile(file), whether it succeeds or fails, leaves every frame that
\* does not hold a page of the file as it was: its descriptor, its slot and its
\* index entry; it calls writePage on no other file, leaves the other files as
\* they were and does not move the clock hand; on a file with no frame in the
\* pool it succeeds and changes nothing.
C22_FlushTouchesOwnFileOnly ==
  \A file \in Files :
    LET r == flushFileBody(Cur, file) IN
    /\ \A g \in Frames \ FramesOf(file) :
         /\ r.s.desc[g] = bufDescTable[g]
         /\ r.s.pool[g] = bufPool[g]
         /\ EntriesOf(g) \subseteq r.s.hash
    /\ r.s.hash \subseteq hashTable
    /\ \A w \in r.s.written : w.file = file
    /\ \A other \in Files \ {file} : r.s.disk[other] = disk[other]
    /\ r.s.hand = clockHand
    /\ FramesOf(file) = {} => (r.err = "OK" /\ r.s = Cur)

\* flushFile has cleared the frame of one file and left the frame of the other
\* file as it was: valid, pinned and dirty, its entry in the index
C22_Witness ==
  /\ last = Call("flushFile", "OK")
  /\ \E f \in Frames : bufDescTable[f] = DescClear /\ bufPool[f].pno # NoPage
  /\ \E g \in Frames :
       /\ bufDescTable[g].valid
       /\ bufDescTable[g].dirty
       /\ bufDescTable[g].pinCnt > 0
       /\ EntriesOf(g) # {}

====
